---- MODULE Spec2Model ----
(***************************************************************************)
(* A model of relic_synthiota.py: the rate-limited MPR121 touch cache of   *)
(* Synthiota, its dual-transport MIDI merge and fan-out, and the three-pad *)
(* capacitive Slider position decoder; and of the main loop of             *)
(* examples/synthiota_simpletest.py, which latches the button presses.     *)
(*                                                                         *)
(* Time is counted in milliseconds.  The slider's arithmetic is modelled   *)
(* exactly over the rationals (a rational is a pair <<n, d>> in lowest     *)
(* terms with d > 0); floating-point rounding is not modelled.             *)
(***************************************************************************)
EXTENDS Integers, Sequences, FiniteSets, TLC

VARIABLES
    now,                \* time.monotonic(), in ms
    hw,                 \* the pads the two MPR121 currently sense as touched
    mpr121_timestamp,   \* Synthiota._mpr121_timestamp, in ms
    mpr121_touched,     \* Synthiota._mpr121_touched, pad k at index k + 1
    scanned_at,         \* when the cached values of each controller were read from it
    access,             \* the last touch-state access and what it did
    prevAccess,         \* the access before it
    usb_in,             \* messages buffered on the USB MIDI port, oldest first
    uart_in,            \* messages buffered on the UART MIDI port, oldest first
    arrived,            \* how many messages each port has received so far
    midi_pc,            \* where get_midi_messages is: "idle", "draining", "returned", "raised"
    msgs,               \* the list msgs of get_midi_messages
    atCall,             \* what both ports buffered when get_midi_messages was called
    during,             \* the messages that arrived while it was draining
    sendLog,            \* the send attempts of the last send_midi_message
    cfg,                \* a Slider's _wrap, _offset, _scale and _pull
    baseline_data,      \* the baselines the channels reported to the last reset
    threshold,          \* Slider._threshold
    slider_value,       \* Slider._value, the last accepted position
    query,              \* the last read of Slider.value since the last reset
    loop_pc,            \* where the example's main loop is: "controls", "buttons", "stopped"
    control_counter,    \* control_counter of the example, in ms
    pressed,            \* the pressed property of the three buttons
    flags,              \* encoder_pressed, octave_up_pressed, octave_down_pressed
    presses,            \* the presses each button reported since the flags were printed
    shown               \* what the last print of the flags showed

touchVars == <<now, hw, mpr121_timestamp, mpr121_touched, scanned_at, access, prevAccess>>

midiVars == <<usb_in, uart_in, arrived, midi_pc, msgs, atCall, during, sendLog>>

sliderVars == <<cfg, baseline_data, threshold, slider_value, query>>

loopVars == <<loop_pc, control_counter, pressed, flags, presses, shown>>

vars == <<touchVars, midiVars, sliderVars, loopVars>>

\* what a step of one component leaves alone
TouchOnly == UNCHANGED <<midiVars, sliderVars, loopVars>>
MidiOnly == UNCHANGED <<touchVars, sliderVars, loopVars>>
SliderOnly == UNCHANGED <<touchVars, midiVars, loopVars>>
LoopOnly == UNCHANGED <<touchVars, midiVars, sliderVars>>

(***************************************************************************)
(* Program constants                                                       *)
(***************************************************************************)
MPR121_POLLING == 10        \* _MPR121_POLLING = 0.01 s
NumControllers == 2         \* len(_MPR121_I2C_ADDRS)
PinsPerController == 12     \* the 12 electrodes of one MPR121
StartupSleep == 100         \* time.sleep(0.1) at the end of __init__

NumChannels == 3            \* a Slider has exactly 3 pads
SentinelDown == 1           \* the threshold that stands for a baseline of 0, pull-down
SentinelUp == 254           \* the same, pull-up

ControlPeriod == 100        \* control_counter = 0.1 s in the example's main loop

NumPads == NumControllers * PinsPerController

PAD_OCTAVE_DOWN == 19
PAD_OCTAVE_UP == 20

STEP_PADS == <<7, 6, 5, 4, 3, 2, 1, 0, 8, 9, 10, 11, 18, 17, 16, 15>>

(***************************************************************************)
(* Bounds of the model                                                     *)
(***************************************************************************)
MaxElapsed == 15            \* the clock is followed this long after start-up

TickStep == 5               \* the granularity at which the clock is observed

MaxArrivals == 3            \* messages a MIDI port receives in one run
BufferSize == 2             \* messages the receive buffer of a MIDI port holds

MaxRaw == 8                 \* the largest raw reading of a pad
MaxBaseline == 4            \* the largest baseline of a pad

MinDelta == 40              \* the shortest pass of the example's main loop

MaxTime == StartupSleep + MaxElapsed

\* The touch patterns the hardware moves between (sets of touched pads).
HwStates == { {}, {0, 20}, {7, 19} }

Failures == {"none", "ctrl0", "ctrl1"}

(***************************************************************************)
(* Touch cache                                                             *)
(***************************************************************************)

\* MPR121.touched_pins of controller i: a tuple of 12 booleans
touched_pins(h, i) == [j \in 1..PinsPerController |-> (i * PinsPerController + j - 1) \in h]

PollDueStrict(t, ts) == t - ts > MPR121_POLLING

\* the guard of _update_touched
PollDue(t, ts) == t - ts >= MPR121_POLLING

\* The loops of _update_touched over both controllers, writing the cache in
\* place.  fail names the controller whose touched_pins read raises (an
\* OSError of the I2C bus), which ends the loops there.
ScanInto(cache, h, fail) ==
    [k \in 1..NumPads |->
        LET i == (k - 1) \div PinsPerController
            j == ((k - 1) % PinsPerController) + 1
        IN  IF fail = "ctrl0" THEN cache[k]
            ELSE IF fail = "ctrl1" /\ i >= 1 THEN cache[k]
            ELSE touched_pins(h, i)[j]]

\* the same loops, for the time at which each controller's cached values
\* were read: a scan at time t
ScanTimes(times, t, fail) ==
    [i \in 1..NumControllers |->
        IF fail = "ctrl0" THEN times[i]
        ELSE IF fail = "ctrl1" /\ i >= 2 THEN times[i]
        ELSE t]

\* the number of touched_pins reads a scan makes
ScanReads(fail) == IF fail = "ctrl0" THEN 1 ELSE NumControllers

\* Synthiota._update_touched at time t: the new timestamp and cache, the
\* hardware reads made and whether it raised
UpdateTouched(t, ts, cache, h, fail) ==
    IF PollDue(t, ts)
    THEN [ts |-> t, cache |-> ScanInto(cache, h, fail),
          reads |-> ScanReads(fail), raised |-> fail # "none"]
    ELSE [ts |-> ts, cache |-> cache, reads |-> 0, raised |-> FALSE]

\* tuple(self._mpr121_touched)
TouchedTuple(cache) == cache

\* tuple([self._mpr121_touched[i] for i in _STEP_PADS])
TouchedStepsTuple(cache) == [n \in 1..Len(STEP_PADS) |-> cache[STEP_PADS[n] + 1]]

\* the ways a call of _update_touched at time t can fail: only a scan reads
\* the bus
FailuresAt(t, ts) == IF PollDue(t, ts) THEN Failures ELSE {"none"}

\* one call of _update_touched, as the access records it; scanAt is when
\* the values the cache holds after the call were read, per controller
Call(t, ts, cache, times, h, fail) ==
    LET u == UpdateTouched(t, ts, cache, h, fail)
    IN  [time |-> t, tsBefore |-> ts, before |-> cache, hwAt |-> h,
         reads |-> u.reads, raised |-> u.raised, ts |-> u.ts, after |-> u.cache,
         scanAt |-> IF u.reads > 0 THEN ScanTimes(times, t, fail) ELSE times]

\* what the caller of an access saw of it
Summary(a) == [kind |-> a.kind, raised |-> a.raised, val |-> a.val]

NoAccess == [kind |-> "none", calls |-> <<>>, raised |-> FALSE, val |-> <<>>]

\* the properties Synthiota.touched and Synthiota.touched_steps
Access(kind, fail) ==
    LET c == Call(now, mpr121_timestamp, mpr121_touched, scanned_at, hw, fail)
    IN  /\ mpr121_timestamp' = c.ts
        /\ mpr121_touched' = c.after
        /\ scanned_at' = c.scanAt
        /\ prevAccess' = Summary(access)
        /\ access' = [kind |-> kind, calls |-> <<c>>, raised |-> c.raised,
                      val |-> IF c.raised THEN <<>>
                              ELSE IF kind = "touched" THEN TouchedTuple(c.after)
                              ELSE TouchedStepsTuple(c.after)]
        /\ UNCHANGED <<now, hw>>
        /\ TouchOnly

Touched == \E fail \in FailuresAt(now, mpr121_timestamp) : Access("touched", fail)

TouchedSteps ==
    \E fail \in FailuresAt(now, mpr121_timestamp) : Access("touched_steps", fail)

\* Synthiota.update_buttons: the octave-up button samples its lambda, then
\* the octave-down button samples its own, d ms later; each lambda calls
\* _update_touched and reads its pad from the cache.  The encoder button
\* then samples the value of its own pin, which calls nothing of the touch
\* cache.  A read that raises ends update_buttons there.
UpdateButtons ==
    \E d \in {0, TickStep}, f1 \in FailuresAt(now, mpr121_timestamp), f2 \in Failures :
        LET c1 == Call(now, mpr121_timestamp, mpr121_touched, scanned_at, hw, f1)
            c2 == Call(now + d, c1.ts, c1.after, c1.scanAt, hw, f2)
            up == c1.after[PAD_OCTAVE_UP + 1]
            down == c2.after[PAD_OCTAVE_DOWN + 1]
        IN  /\ now + d <= MaxTime
            /\ f2 \in FailuresAt(now + d, c1.ts)
            /\ now' = now + d
            /\ prevAccess' = Summary(access)
            /\ IF c1.raised
               THEN /\ mpr121_timestamp' = c1.ts
                    /\ mpr121_touched' = c1.after
                    /\ scanned_at' = c1.scanAt
                    /\ access' = [kind |-> "buttons", calls |-> <<c1>>,
                                  raised |-> TRUE, val |-> <<>>]
               ELSE /\ mpr121_timestamp' = c2.ts
                    /\ mpr121_touched' = c2.after
                    /\ scanned_at' = c2.scanAt
                    /\ access' = [kind |-> "buttons", calls |-> <<c1, c2>>,
                                  raised |-> c2.raised,
                                  val |-> IF c2.raised THEN <<>> ELSE <<up, down>>]
            /\ UNCHANGED hw
            /\ TouchOnly

\* the monotonic clock advances
Tick ==
    /\ now + TickStep <= MaxTime
    /\ now' = now + TickStep
    /\ UNCHANGED <<hw, mpr121_timestamp, mpr121_touched, scanned_at, access, prevAccess>>
    /\ TouchOnly

\* fingers come and go
HwChange ==
    /\ \E h \in HwStates \ {hw} : hw' = h
    /\ UNCHANGED <<now, mpr121_timestamp, mpr121_touched, scanned_at, access, prevAccess>>
    /\ TouchOnly

TouchInit ==
    /\ now = StartupSleep
    /\ hw \in HwStates
    /\ mpr121_timestamp = 0
    /\ mpr121_touched = [k \in 1..NumPads |-> FALSE]
    /\ scanned_at = [i \in 1..NumControllers |-> 0]
    /\ access = NoAccess
    /\ prevAccess = Summary(NoAccess)

TouchNext == Touched \/ TouchedSteps \/ UpdateButtons \/ Tick \/ HwChange

(***************************************************************************)
(* MIDI                                                                    *)
(***************************************************************************)
Ports == {"usb", "uart"}

Range(q) == {q[i] : i \in 1..Len(q)}

\* the messages of q that came in on port p, in the order of q
FromPort(q, p) == SelectSeq(q, LAMBDA m : m.port = p)

ReceiveBoth(usb, uart) ==
    IF usb # <<>>
    THEN [got |-> TRUE, msg |-> Head(usb), usb |-> Tail(usb),
          uart |-> IF uart # <<>> THEN Tail(uart) ELSE uart]
    ELSE IF uart # <<>>
    THEN [got |-> TRUE, msg |-> Head(uart), usb |-> usb, uart |-> Tail(uart)]
    ELSE [got |-> FALSE, msg |-> [port |-> "none", n |-> 0], usb |-> usb, uart |-> uart]

ReceiveUartFirst(usb, uart) ==
    IF uart # <<>>
    THEN [got |-> TRUE, msg |-> Head(uart), usb |-> usb, uart |-> Tail(uart)]
    ELSE IF usb # <<>>
    THEN [got |-> TRUE, msg |-> Head(usb), usb |-> Tail(usb), uart |-> uart]
    ELSE [got |-> FALSE, msg |-> [port |-> "none", n |-> 0], usb |-> usb, uart |-> uart]

\* self._midi_usb.receive() or self._midi_uart.receive(): the message taken,
\* if any, and what is left in both buffers.  The UART port is asked only
\* when the USB port returned None.
ReceiveEither(usb, uart) ==
    IF usb # <<>>
    THEN [got |-> TRUE, msg |-> Head(usb), usb |-> Tail(usb), uart |-> uart]
    ELSE IF uart # <<>>
    THEN [got |-> TRUE, msg |-> Head(uart), usb |-> usb, uart |-> Tail(uart)]
    ELSE [got |-> FALSE, msg |-> [port |-> "none", n |-> 0], usb |-> usb, uart |-> uart]

\* The list msgs has room for more messages than both buffers hold at a
\* time; msgs.append raises MemoryError when the heap is used up.
HeapMsgs == 2 * BufferSize + 1

\* a MIDI message comes in on port p, whose buffer has room for it
MidiArrive(p) ==
    /\ arrived[p] < MaxArrivals
    /\ Len(IF p = "usb" THEN usb_in ELSE uart_in) < BufferSize
    /\ LET m == [port |-> p, n |-> arrived[p] + 1]
       IN  /\ arrived' = [arrived EXCEPT ![p] = @ + 1]
           /\ usb_in' = IF p = "usb" THEN Append(usb_in, m) ELSE usb_in
           /\ uart_in' = IF p = "uart" THEN Append(uart_in, m) ELSE uart_in
           /\ during' = IF midi_pc = "draining" THEN Append(during, m) ELSE during
    /\ UNCHANGED <<midi_pc, msgs, atCall, sendLog>>
    /\ MidiOnly

\* get_midi_messages is called: msgs = []
GetMidiMessages ==
    /\ midi_pc # "draining"
    /\ midi_pc' = "draining"
    /\ msgs' = <<>>
    /\ atCall' = [usb |-> usb_in, uart |-> uart_in]
    /\ during' = <<>>
    /\ UNCHANGED <<usb_in, uart_in, arrived, sendLog>>
    /\ MidiOnly

\* one evaluation of the while condition, and the loop body or the return
ReceiveStep ==
    /\ midi_pc = "draining"
    /\ LET r == ReceiveEither(usb_in, uart_in)
           full == r.got /\ Len(msgs) >= HeapMsgs
       IN  /\ usb_in' = r.usb
           /\ uart_in' = r.uart
           /\ msgs' = IF r.got /\ ~full THEN Append(msgs, r.msg) ELSE msgs
           /\ midi_pc' = IF full THEN "raised"
                         ELSE IF r.got THEN "draining" ELSE "returned"
    /\ UNCHANGED <<arrived, atCall, during, sendLog>>
    /\ MidiOnly

\* send_midi_message: the USB send, then the UART send.  A send that raises
\* ends the call there.
SendAttempts(usbFails, uartFails) ==
    [calls |-> 1, usb |-> 1, uart |-> IF usbFails THEN 0 ELSE 1,
     usbFailed |-> usbFails, uartFailed |-> ~usbFails /\ uartFails,
     raised |-> usbFails \/ uartFails]

SendMidiMessage ==
    /\ midi_pc # "draining"
    /\ \E usbFails \in BOOLEAN, uartFails \in BOOLEAN :
        sendLog' = SendAttempts(usbFails, uartFails)
    /\ UNCHANGED <<usb_in, uart_in, arrived, midi_pc, msgs, atCall, during>>
    /\ MidiOnly

NoSend ==
    [calls |-> 0, usb |-> 0, uart |-> 0, usbFailed |-> FALSE, uartFailed |-> FALSE,
     raised |-> FALSE]

MidiInit ==
    /\ usb_in = <<>>
    /\ uart_in = <<>>
    /\ arrived = [p \in Ports |-> 0]
    /\ midi_pc = "idle"
    /\ msgs = <<>>
    /\ atCall = [usb |-> <<>>, uart |-> <<>>]
    /\ during = <<>>
    /\ sendLog = NoSend

MidiNext ==
    \/ MidiArrive("usb")
    \/ MidiArrive("uart")
    \/ GetMidiMessages
    \/ ReceiveStep
    \/ SendMidiMessage

(***************************************************************************)
(* Rational arithmetic                                                     *)
(*                                                                         *)
(* A rational is a pair <<n, d>> with d > 0.  The operations do not reduce *)
(* their result; Rat reduces, and every rational that is stored or         *)
(* returned is reduced, so that equal numbers are equal pairs.             *)
(***************************************************************************)
RECURSIVE Gcd(_, _)
Gcd(a, b) == IF b = 0 THEN a ELSE Gcd(b, a % b)

Abs(n) == IF n < 0 THEN -n ELSE n

\* n / d in lowest terms, d # 0
Rat(n, d) ==
    LET g == Gcd(Abs(n), Abs(d))
        sgn == IF d < 0 THEN -1 ELSE 1
    IN  <<sgn * (n \div g), sgn * (d \div g)>>

Reduced(x) == Rat(x[1], x[2])

Zero == <<0, 1>>
One == <<1, 1>>
Half == <<1, 2>>

RInt(k) == <<k, 1>>
RAdd(x, y) == <<x[1] * y[2] + y[1] * x[2], x[2] * y[2]>>
RSub(x, y) == <<x[1] * y[2] - y[1] * x[2], x[2] * y[2]>>
RMul(x, y) == <<x[1] * y[1], x[2] * y[2]>>
RDiv(x, y) ==
    IF y[1] < 0 THEN <<-(x[1] * y[2]), -(x[2] * y[1])>> ELSE <<x[1] * y[2], x[2] * y[1]>>
RAbs(x) == <<Abs(x[1]), x[2]>>
REq(x, y) == x[1] * y[2] = y[1] * x[2]
RLt(x, y) == x[1] * y[2] < y[1] * x[2]
RLe(x, y) == x[1] * y[2] <= y[1] * x[2]
RGt(x, y) == RLt(y, x)
RGe(x, y) == RLe(y, x)

\* x % 1 of Python, for a float x: x - floor(x)
RMod1(x) == <<x[1] % x[2], x[2]>>

(***************************************************************************)
(* Slider                                                                  *)
(***************************************************************************)
Pulls == {"UP", "DOWN"}

\* the raw readings a pad can have
RawVals == {0, 4, MaxRaw}

\* the baselines a channel can report
Baselines == {0, MaxBaseline}

\* the configurations a Slider is constructed with; scale = None gives
\* 1 / (len(self._channels) - 1)
DefaultScale == Rat(1, NumChannels - 1)

\* the scale argument of Slider(): None (written <<>>) or a number
NoScale == <<>>

ScaleArgs == {NoScale, Rat(1, 3)}

\* self._scale = scale if scale is not None else 1 / (len(self._channels) - 1)
ScaleOf(arg) == IF arg = NoScale THEN DefaultScale ELSE arg

Offsets == {Zero, Rat(1, 4)}

\* Slider.__init__: the configuration the arguments give
Config(wrap, offset, scaleArg, pull) ==
    [wrap |-> wrap, offset |-> offset, scaleArg |-> scaleArg,
     scale |-> ScaleOf(scaleArg), pull |-> pull]

\* The two sliders of Synthiota take every default (no wrap, no offset, no
\* scale argument) on either platform; the others are Sliders constructed
\* with wrap, an offset or a scale of a third.
Configs ==
    {Config(FALSE, Zero, NoScale, p) : p \in Pulls}
    \cup {Config(TRUE, o, Rat(1, 3), "DOWN") : o \in Offsets}
    \cup {Config(w, Rat(1, 4), a, "UP") : w \in BOOLEAN, a \in ScaleArgs \ {NoScale}}
    \cup {Config(TRUE, Zero, NoScale, "DOWN")}

ThresholdOfBaseline(baseline, pull) == baseline

\* the threshold reset stores for a baseline
ThresholdOf(baseline, pull) ==
    IF baseline > 0 THEN baseline
    ELSE IF pull = "DOWN" THEN SentinelDown ELSE SentinelUp

\* Slider.reset, for the baselines the three channels report
ResetThresholds(baselines, pull) ==
    [i \in 1..NumChannels |-> ThresholdOf(baselines[i], pull)]

\* one element of Slider.raw_value: the relative position of a pad
Relative(raw, th, pull) ==
    Reduced(RMul(RDiv(RInt(raw - th), RInt(th)), RInt(IF pull = "DOWN" THEN 1 ELSE -1)))

\* the property Slider.raw_value
RawValue(raws, th, pull) == [i \in 1..NumChannels |-> Relative(raws[i], th[i], pull)]

NonePos == [kind |-> "none", v |-> Zero, zone |-> "none"]
ErrorPos == [kind |-> "error", v |-> Zero, zone |-> "error"]
Pos(v, zone) == [kind |-> "value", v |-> v, zone |-> zone]

\* scale * (k + y / (x + y)); float division by zero raises ZeroDivisionError
Overlap(scale, k, x, y, zone) ==
    IF REq(RAdd(x, y), Zero) THEN ErrorPos
    ELSE Pos(Reduced(RMul(scale, RAdd(RInt(k), RDiv(y, RAdd(x, y))))), zone)

\* the if / elif chain of Slider.value: the position before noise filtering
Position(a, b, c, wrap, scale) ==
    IF RGe(a, Zero) /\ RGe(b, Zero) THEN Overlap(scale, 0, a, b, "AB")
    ELSE IF RGe(b, Zero) /\ RGe(c, Zero) THEN Overlap(scale, 1, b, c, "BC")
    ELSE IF RGe(c, Zero) /\ RGe(a, Zero) /\ wrap THEN Overlap(scale, 2, c, a, "CA")
    ELSE IF RGt(a, Zero) /\ RLe(b, Zero) /\ RLe(c, Zero)
        THEN Pos(Reduced(RMul(RInt(0), scale)), "A")
    ELSE IF RLe(a, Zero) /\ RGt(b, Zero) /\ RLe(c, Zero)
        THEN Pos(Reduced(RMul(RInt(1), scale)), "B")
    ELSE IF RLe(a, Zero) /\ RLe(b, Zero) /\ RGt(c, Zero) /\ wrap
        THEN Pos(Reduced(RMul(RInt(2), scale)), "C")
    ELSE NonePos

FilterNoiseLoose(value, last) ==
    IF RGe(RAbs(RSub(value, last)), Half)
    THEN [value |-> last, last |-> last]
    ELSE [value |-> value, last |-> value]

FilterNoiseStoring(value, last) ==
    IF RGt(RAbs(RSub(value, last)), Half)
    THEN [value |-> last, last |-> value]
    ELSE [value |-> value, last |-> value]

\* "filter noise": the value that goes on and the new self._value
FilterNoise(value, last) ==
    IF RGt(RAbs(RSub(value, last)), Half)
    THEN [value |-> last, last |-> last]
    ELSE [value |-> value, last |-> value]

\* "apply offset"
ApplyOffset(value, offset) == Reduced(RMod1(RAdd(value, offset)))

ValueForgetting(raws, th, last, c) ==
    LET r == RawValue(raws, th, c.pull)
        p == Position(r[1], r[2], r[3], c.wrap, c.scale)
        f == FilterNoise(p.v, last)
    IN  IF p.kind = "value"
        THEN [pos |-> p, last |-> f.last,
              result |-> [kind |-> "value", v |-> ApplyOffset(f.value, c.offset)]]
        ELSE [pos |-> p, last |-> Zero, result |-> [kind |-> p.kind, v |-> Zero]]

\* the property Slider.value read with the raw readings raws: what it
\* returns (or that it raises) and the new self._value
Value(raws, th, last, c) ==
    LET r == RawValue(raws, th, c.pull)
        p == Position(r[1], r[2], r[3], c.wrap, c.scale)
        f == FilterNoise(p.v, last)
    IN  IF p.kind = "value"
        THEN [pos |-> p, last |-> f.last,
              result |-> [kind |-> "value", v |-> ApplyOffset(f.value, c.offset)]]
        ELSE [pos |-> p, last |-> last, result |-> [kind |-> p.kind, v |-> Zero]]

NoResult == [kind |-> "unread", v |-> Zero]

NoQuery ==
    [read |-> FALSE, raws |-> <<0, 0, 0>>, th |-> <<0, 0, 0>>, lastBefore |-> Zero,
     out |-> [pos |-> NonePos, last |-> Zero, result |-> NoResult],
     again |-> FALSE, prevResult |-> NoResult, afterCA |-> FALSE]

\* the record of one read of Slider.value: out is what the read did; again
\* says that the read before it had the same raw readings, and prevResult
\* is what that one returned; afterCA says that the read before it accepted
\* a position in the C/A overlap
QueryOf(raws, th, last, c, q) ==
    [read |-> TRUE, raws |-> raws, th |-> th, lastBefore |-> last,
     out |-> Value(raws, th, last, c),
     again |-> q.read /\ q.raws = raws,
     prevResult |-> IF q.read /\ q.raws = raws THEN q.out.result ELSE NoResult,
     afterCA |-> q.read /\ q.out.pos.zone = "CA" /\ q.out.pos.v = last]

\* Slider.value is read while the pads read raws
SliderValue ==
    /\ \E raws \in [1..NumChannels -> RawVals] :
        /\ query' = QueryOf(raws, threshold, slider_value, cfg, query)
        /\ slider_value' = query'.out.last
    /\ UNCHANGED <<cfg, baseline_data, threshold>>
    /\ SliderOnly

\* Slider.reset is called while the channels report the baselines
SliderReset ==
    /\ \E b \in [1..NumChannels -> Baselines] :
        /\ baseline_data' = b
        /\ threshold' = ResetThresholds(b, cfg.pull)
    /\ query' = NoQuery
    /\ UNCHANGED <<cfg, slider_value>>
    /\ SliderOnly

\* Slider.__init__: self._value = 0, then reset()
SliderInit ==
    /\ cfg \in Configs
    /\ baseline_data \in [1..NumChannels -> Baselines]
    /\ threshold = ResetThresholds(baseline_data, cfg.pull)
    /\ slider_value = Zero
    /\ query = NoQuery

\* the sliders Synthiota constructs: no wrap, no offset, the default scale
SliderDefault ==
    /\ cfg = Config(FALSE, Zero, NoScale, "DOWN")
    /\ baseline_data = <<4, 4, 4>>
    /\ threshold = ResetThresholds(baseline_data, "DOWN")
    /\ slider_value = Zero
    /\ query = NoQuery

SliderNext == SliderValue \/ SliderReset

(***************************************************************************)
(* The main loop of examples/synthiota_simpletest.py                       *)
(***************************************************************************)
Buttons == {"encoder", "octave_up", "octave_down"}

\* the time one pass of the loop takes
LoopDeltas == {MinDelta, 2 * MinDelta}

AccumulateLast(flag, p) == p

\* x_pressed = x_pressed or synthiota.x_button.pressed
Accumulate(flag, p) == flag \/ p

NoneShown ==
    [read |-> FALSE, flags |-> [b \in Buttons |-> FALSE],
     presses |-> [b \in Buttons |-> 0], last |-> [b \in Buttons |-> FALSE]]

\* The first half of a pass: delta is taken and, when control_counter has
\* run out, the three flags are printed and then cleared.
LoopControls ==
    /\ loop_pc = "controls"
    /\ \E delta \in LoopDeltas :
        LET c == control_counter - delta
        IN  IF c <= 0
            THEN /\ shown' = [read |-> TRUE, flags |-> flags, presses |-> presses,
                              last |-> pressed]
                 /\ flags' = [b \in Buttons |-> FALSE]
                 /\ presses' = [b \in Buttons |-> 0]
                 /\ control_counter' = ControlPeriod
            ELSE /\ control_counter' = c
                 /\ UNCHANGED <<flags, presses, shown>>
    /\ loop_pc' = "buttons"
    /\ UNCHANGED pressed
    /\ LoopOnly

\* The second half: update_buttons, after which each button reports in
\* pressed whether this update saw it pressed, and the three flags
\* accumulate the reports.
LoopButtons ==
    /\ loop_pc = "buttons"
    /\ \E p \in [Buttons -> BOOLEAN] :
        /\ pressed' = p
        /\ flags' = [b \in Buttons |-> Accumulate(flags[b], p[b])]
        /\ presses' = [b \in Buttons |-> presses[b] + (IF p[b] THEN 1 ELSE 0)]
    /\ loop_pc' = "controls"
    /\ UNCHANGED <<control_counter, shown>>
    /\ LoopOnly

\* update_buttons raises (a touch scan failed): the exception leaves the
\* loop, which has no handler
LoopButtonsRaise ==
    /\ loop_pc = "buttons"
    /\ loop_pc' = "stopped"
    /\ UNCHANGED <<control_counter, pressed, flags, presses, shown>>
    /\ LoopOnly

\* lines 41 to 45 of the example, before the loop
LoopInit ==
    /\ loop_pc = "controls"
    /\ control_counter = 0
    /\ pressed = [b \in Buttons |-> FALSE]
    /\ flags = [b \in Buttons |-> FALSE]
    /\ presses = [b \in Buttons |-> 0]
    /\ shown = NoneShown

LoopNext == LoopControls \/ LoopButtons \/ LoopButtonsRaise

Init == TouchInit /\ MidiInit /\ SliderDefault /\ LoopInit

TouchSpec == Init /\ [][TouchNext]_vars

MidiSpecInit ==
    /\ TouchInit
    /\ hw = {}
    /\ MidiInit
    /\ SliderDefault
    /\ LoopInit

MidiSpec == MidiSpecInit /\ [][MidiNext]_vars

\* get_midi_messages is one synchronous call: once entered, its loop runs on
MidiLiveSpec == MidiSpecInit /\ [][MidiNext]_vars /\ WF_vars(ReceiveStep)

SliderSpecInit ==
    /\ TouchInit
    /\ hw = {}
    /\ MidiInit
    /\ SliderInit
    /\ LoopInit

SliderSpec == SliderSpecInit /\ [][SliderNext]_vars

LoopSpecInit ==
    /\ TouchInit
    /\ hw = {}
    /\ MidiInit
    /\ SliderDefault
    /\ LoopInit

LoopSpec == LoopSpecInit /\ [][LoopNext]_vars

(***************************************************************************)
(* Properties of the touch cache                                           *)
(***************************************************************************)
FullScan(h) == [k \in 1..NumPads |-> (k - 1) \in h]

NoScan(a) == \A n \in 1..Len(a.calls) : a.calls[n].reads = 0

\* C1: the hardware is read only by a call of _update_touched made at least
\* 10 ms after the last scan.  A call made earlier reads nothing and
\* leaves the cache as it was, so that touched or touched_steps returns the
\* snapshot its last access returned and a button samples the pad as cached;
\* a call made at or after the interval reads the controllers and, when no
\* read fails, leaves every one of the 24 channels as the hardware has it.
C1_ScanOnlyWhenDue ==
    /\ \A n \in 1..Len(access.calls) :
        LET c == access.calls[n]
            elapsed == c.time - c.tsBefore
        IN  /\ c.reads > 0 => elapsed >= MPR121_POLLING
            /\ elapsed < MPR121_POLLING =>
                c.reads = 0 /\ c.after = c.before /\ c.ts = c.tsBefore /\ ~c.raised
            /\ elapsed >= MPR121_POLLING => c.reads >= 1 /\ c.ts = c.time
            /\ (elapsed >= MPR121_POLLING /\ ~c.raised) =>
                c.reads = NumControllers /\ c.after = FullScan(c.hwAt)
    /\ (/\ access.kind \in {"touched", "touched_steps"}
        /\ access.kind = prevAccess.kind
        /\ ~prevAccess.raised
        /\ NoScan(access)) => ~access.raised /\ access.val = prevAccess.val
    /\ (access.kind = "buttons" /\ NoScan(access)) =>
            /\ ~access.raised
            /\ access.val = <<access.calls[1].before[PAD_OCTAVE_UP + 1],
                              access.calls[1].before[PAD_OCTAVE_DOWN + 1]>>

\* C1 witness: an access within the interval returns the snapshot of the
\* access before it although the hardware has changed since, and that
\* snapshot came from a scan
C1_Witness ==
    /\ access.kind = "touched"
    /\ prevAccess.kind = "touched"
    /\ ~prevAccess.raised
    /\ Len(access.calls) = 1
    /\ access.calls[1].reads = 0
    /\ access.val = prevAccess.val
    /\ access.val # FullScan(access.calls[1].hwAt)
    /\ access.val # [k \in 1..NumPads |-> FALSE]

\* C2: a scan that fails leaves the cached snapshot, all 24 channels, as it
\* was before the scan started, and the access raises
C2_FailedScanKeepsSnapshot ==
    \A n \in 1..Len(access.calls) :
        access.calls[n].raised =>
            /\ access.raised
            /\ access.calls[n].after = access.calls[n].before

\* the controller that senses pad k
ControllerOf(k) == (k \div PinsPerController) + 1

\* the last access was a read of touched or touched_steps that returned
Snapshot ==
    /\ access.kind \in {"touched", "touched_steps"}
    /\ ~access.raised

\* C13: every value in a snapshot that touched or touched_steps returns was
\* read from its controller no longer than 10 ms before the access
C13_SnapshotFresh ==
    Snapshot =>
        \A i \in 1..NumControllers :
            access.calls[1].time - access.calls[1].scanAt[i] <= MPR121_POLLING

\* C17: all values of a snapshot that touched or touched_steps returns were
\* read in one and the same scan
C17_NoTearing ==
    Snapshot =>
        \A i, j \in 1..NumControllers :
            access.calls[1].scanAt[i] = access.calls[1].scanAt[j]

\* the scans an access made: the calls of _update_touched that read a controller
Scans(a) == {n \in 1..Len(a.calls) : a.calls[n].reads > 0}

\* C20: one update_buttons makes at most one scan, the two octave buttons
\* sample pads whose cached values were read in the same scan, and the
\* encoder button's sample makes no call of _update_touched
C20_ButtonsShareSnapshot ==
    access.kind = "buttons" =>
        /\ Cardinality(Scans(access)) <= 1
        /\ Len(access.calls) <= 2
        /\ (~access.raised) =>
                access.calls[1].scanAt[ControllerOf(PAD_OCTAVE_UP)]
                    = access.calls[2].scanAt[ControllerOf(PAD_OCTAVE_DOWN)]

\* C20 without the second part: at most one scan, and none for the encoder
C20_AtMostOneScan ==
    access.kind = "buttons" =>
        /\ Cardinality(Scans(access)) <= 1
        /\ Len(access.calls) <= 2

(***************************************************************************)
(* Properties of the MIDI router                                           *)
(***************************************************************************)

\* C3: every send_midi_message makes exactly one send attempt on the USB
\* port and exactly one on the UART port, whether or not the other failed
C3_OneAttemptPerTransport ==
    sendLog.calls > 0 => sendLog.usb = 1 /\ sendLog.uart = 1

\* C4: get_midi_messages returns every message that either port buffered
\* when it was called (and every one that arrived while it drained), each
\* exactly once, the messages of one port in that port's receive order; it
\* returns the empty tuple when there was none, and the one message when
\* only the UART port had one
C4_DrainComplete ==
    midi_pc = "returned" =>
        /\ \A p \in Ports : FromPort(msgs, p) = atCall[p] \o FromPort(during, p)
        /\ Len(msgs) = Len(atCall.usb) + Len(atCall.uart) + Len(during)
        /\ \A i, j \in 1..Len(msgs) : msgs[i] = msgs[j] => i = j
        /\ \A m \in Range(atCall.usb) \cup Range(atCall.uart) :
            Cardinality({i \in 1..Len(msgs) : msgs[i] = m}) = 1
        /\ (atCall.usb = <<>> /\ atCall.uart = <<>> /\ during = <<>>) => msgs = <<>>
        /\ (atCall.usb = <<>> /\ Len(atCall.uart) = 1 /\ during = <<>>) =>
            msgs = atCall.uart

\* C4 witness: a drain that found messages buffered on both ports, more
\* than one on the UART port, has returned
C4_Witness ==
    /\ midi_pc = "returned"
    /\ Len(atCall.usb) >= 1
    /\ Len(atCall.uart) >= 2
    /\ Len(msgs) >= 3

\* C12: every call of get_midi_messages returns, also when messages keep
\* arriving on a port while it drains
C12_DrainReturns == (midi_pc = "draining") ~> (midi_pc = "returned")

\* C12, the first half: the loop ends at the first evaluation of its
\* condition that finds both ports without a message, without waiting
C12_ReturnsWhenEmpty ==
    [][(midi_pc = "draining" /\ usb_in = <<>> /\ uart_in = <<>> /\ midi_pc' # "draining")
        => (midi_pc' = "returned" /\ msgs' = msgs)]_vars

\* C18 as stated: in the tuple returned by a call of get_midi_messages
\* that found messages pending on both ports, every USB message comes
\* before every UART message
C18_AllUsbBeforeUart ==
    (midi_pc = "returned" /\ atCall.usb # <<>> /\ atCall.uart # <<>>) =>
        \A i, j \in 1..Len(msgs) :
            (msgs[i].port = "usb" /\ msgs[j].port = "uart") => i < j

\* C18: in the tuple get_midi_messages returns, every USB message that was
\* pending when it was called comes before every UART message; and a
\* message leaves the UART buffer only in a step that found the USB buffer
\* empty, while a step that finds a USB message takes the oldest one
C18_UsbPriority ==
    /\ [](midi_pc = "returned" =>
            \A i, j \in 1..Len(msgs) :
                (msgs[i] \in Range(atCall.usb) /\ msgs[j].port = "uart") => i < j)
    /\ [][(/\ (Len(uart_in') < Len(uart_in) => usb_in = <<>>)
           /\ (midi_pc = "draining" /\ arrived' = arrived /\ usb_in # <<>>) =>
                (uart_in' = uart_in /\ usb_in' = Tail(usb_in)))]_vars

\* C18 witness: both ports had messages pending at the call, and the tuple
\* returned has a USB message, arrived during the drain, after a UART message
C18_Witness ==
    /\ midi_pc = "returned"
    /\ atCall.usb # <<>>
    /\ atCall.uart # <<>>
    /\ \E i, j \in 1..Len(msgs) :
        i < j /\ msgs[i].port = "uart" /\ msgs[j].port = "usb"

(***************************************************************************)
(* Properties of the slider                                                *)
(***************************************************************************)

\* the relative pad values of the last read
Rel == RawValue(query.raws, query.th, cfg.pull)

InUnitRange(v, wrap) ==
    /\ RGe(v, Zero)
    /\ IF wrap THEN RLt(v, One) ELSE RLe(v, One)

\* C5: Slider.value returns None when every relative pad value is below
\* zero, and otherwise returns a number, in [0,1) for a wrapped slider and
\* in [0,1] for one that is not
C5_NoneOrInRange ==
    query.read =>
        IF \A i \in 1..NumChannels : RLt(Rel[i], Zero)
        THEN query.out.result.kind = "none"
        ELSE /\ query.out.result.kind = "value"
             /\ InUnitRange(query.out.result.v, cfg.wrap)

\* C6: a read of Slider.value never raises, whatever the raw readings
C6_NeverAborts == query.out.result.kind # "error"

\* C7: when the position computed from the readings differs from
\* last_value by more than 0.5, the read returns (last_value + offset) mod 1
\* and leaves last_value as it was; otherwise it stores the position as
\* last_value and returns (position + offset) mod 1
C7_NoiseRejection ==
    (query.read /\ query.out.pos.kind = "value") =>
        LET p == query.out.pos.v
            l == query.lastBefore
            far == RGt(RAbs(RSub(p, l)), <<1, 2>>)
            kept == IF far THEN l ELSE p
        IN  /\ slider_value = kept
            /\ query.out.result.kind = "value"
            /\ query.out.result.v = Reduced(RMod1(RAdd(kept, cfg.offset)))

\* C7 witness: a read whose position was more than 0.5 away was rejected
\* while last_value and the offset were not 0
C7_Witness ==
    /\ query.read
    /\ query.out.pos.kind = "value"
    /\ RGt(RAbs(RSub(query.out.pos.v, query.lastBefore)), <<1, 2>>)
    /\ query.lastBefore # Zero
    /\ cfg.offset # Zero

\* C8: a read of Slider.value with the raw readings of the read before it
\* returns what that read returned and leaves last_value as that read left it
C8_Idempotent ==
    query.again =>
        /\ query.out.result = query.prevResult
        /\ slider_value = query.lastBefore

\* C8 witness: the second of two reads with the same readings, where the
\* first accepted a position other than 0
C8_Witness ==
    /\ query.again
    /\ query.out.result.kind = "value"
    /\ query.out.pos.v = query.lastBefore
    /\ query.lastBefore # Zero

\* C9: on a wrapped slider a finger in the C/A overlap is reported at a
\* position in [2*scale, 3*scale) (mod 1, offset applied), and a read with
\* the finger on pad A alone that follows a read in the C/A overlap reports
\* pad A's position, (0 + offset) mod 1
C9_WrapContinuous ==
    (query.read /\ cfg.wrap) =>
        /\ query.out.pos.zone = "CA" =>
            /\ RGe(query.out.pos.v, RMul(RInt(2), cfg.scale))
            /\ RLt(query.out.pos.v, RMul(RInt(3), cfg.scale))
            /\ query.out.result.v = Reduced(RMod1(RAdd(query.out.pos.v, cfg.offset)))
        /\ (query.afterCA /\ query.out.pos.zone = "A") =>
            query.out.result.v = Reduced(RMod1(RAdd(Zero, cfg.offset)))

\* C9, the second half alone: the read on pad A that follows an accepted
\* read in the C/A overlap
C9_AfterOverlap ==
    (query.read /\ cfg.wrap /\ query.afterCA /\ query.out.pos.zone = "A") =>
        query.out.result.v = Reduced(RMod1(RAdd(Zero, cfg.offset)))

C15_DefaultScaleThird ==
    cfg.scaleArg = NoScale =>
        /\ cfg.scale = <<1, 3>>
        /\ (query.read /\ query.out.pos.zone = "B") => query.out.pos.v = <<1, 3>>

\* the position p is scale * (k + y / (x + y)), a number; with zeroSumRaises
\* a read that raises is accepted when x + y = 0
OverlapAsSpecified(p, scale, k, x, y, zeroSumRaises) ==
    LET sum == Reduced(RAdd(x, y))
    IN  IF zeroSumRaises /\ REq(sum, Zero)
        THEN p.kind = "error"
        ELSE /\ p.kind = "value"
             /\ REq(Reduced(RMul(p.v, sum)),
                    Reduced(RMul(scale, Reduced(RAdd(RMul(RInt(k), sum), y)))))

\* the position p is the number v
IsPosition(p, v) == p.kind = "value" /\ REq(p.v, v)

\* the zone selection of the reference algorithm, for the last read
ZonesAsSpecified(zeroSumRaises) ==
    LET a == Rel[1]
        b == Rel[2]
        c == Rel[3]
        s == cfg.scale
        p == query.out.pos
    IN  IF RGe(a, Zero) /\ RGe(b, Zero)
        THEN /\ OverlapAsSpecified(p, s, 0, a, b, zeroSumRaises)
             /\ p.kind = "value" => RGe(p.v, Zero) /\ RLe(p.v, s)
        ELSE IF RGe(b, Zero) /\ RGe(c, Zero)
        THEN OverlapAsSpecified(p, s, 1, b, c, zeroSumRaises)
        ELSE IF cfg.wrap /\ RGe(c, Zero) /\ RGe(a, Zero)
        THEN OverlapAsSpecified(p, s, 2, c, a, zeroSumRaises)
        ELSE IF RGt(a, Zero) /\ RLe(b, Zero) /\ RLe(c, Zero)
        THEN IsPosition(p, Zero)
        ELSE IF RGt(b, Zero) /\ RLe(a, Zero) /\ RLe(c, Zero)
        THEN IsPosition(p, s)
        ELSE IF cfg.wrap /\ RGt(c, Zero) /\ RLe(a, Zero) /\ RLe(b, Zero)
        THEN IsPosition(p, RMul(RInt(2), s))
        ELSE p.kind = "none"

\* C16: for every triple of relative pad values and both wrap settings the
\* position a read computes is the one of the reference selection: the A/B
\* overlap scale * (0 + b / (a + b)), in [0, scale]; else the B/C overlap
\* scale * (1 + c / (b + c)); else, with wrap, the C/A overlap
\* scale * (2 + a / (c + a)); else 0, scale or (with wrap) 2 * scale for
\* pad A, B or C alone; else None
C16_ZoneSelection == query.read => ZonesAsSpecified(FALSE)

\* C16 apart from the overlap of two pads that both read exactly their
\* baseline, where the read raises
C16_ZoneSelectionNonZero == query.read => ZonesAsSpecified(TRUE)

\* the read q computed a position more than 0.5 away from last_value
Rejected(q) ==
    /\ q.read
    /\ q.out.pos.kind = "value"
    /\ RGt(RAbs(RSub(q.out.pos.v, q.lastBefore)), <<1, 2>>)

\* C19: last_value changes only in a read of value that computes a
\* position within 0.5 of it, and then becomes that position; a read that
\* returns None or raises, a rejected read and a reset leave it as it was.
\* A rejected read returns (last_value + offset) mod 1, and of two reads in
\* a row that are both rejected the second returns what the first returned
C19_StickyRejection ==
    [][/\ slider_value' # slider_value =>
            /\ query'.read
            /\ query'.out.pos.kind = "value"
            /\ RLe(RAbs(RSub(query'.out.pos.v, slider_value)), <<1, 2>>)
            /\ slider_value' = query'.out.pos.v
       /\ (query' # query /\ Rejected(query')) =>
            /\ slider_value' = slider_value
            /\ query'.out.result =
                    [kind |-> "value", v |-> Reduced(RMod1(RAdd(slider_value, cfg.offset)))]
       /\ (query' # query /\ Rejected(query) /\ Rejected(query')) =>
            query'.out.result = query.out.result]_vars

\* C19 witness: the second of two rejected reads in a row, on a slider whose
\* last accepted position is not 0, returns what the first one returned
C19_Witness ==
    /\ query.again
    /\ Rejected(query)
    /\ query.prevResult = query.out.result
    /\ query.lastBefore # Zero
    /\ slider_value = query.lastBefore

(***************************************************************************)
(* Properties of the example's main loop                                   *)
(***************************************************************************)

\* C11: a flag printed by the loop is set exactly when its button reported
\* a press in some update_buttons since the print before, whichever update
\* that was; between prints a flag is set as soon as a press was reported
\* and stays set until it is printed
C11_NoPressLost ==
    /\ shown.read => \A b \in Buttons : shown.flags[b] <=> shown.presses[b] > 0
    /\ \A b \in Buttons : flags[b] <=> presses[b] > 0

\* C11 witness: the loop printed a flag as set for a press that was
\* reported once, and not by the last update before the print, after at
\* least two updates
C11_Witness ==
    /\ shown.read
    /\ shown.flags["octave_up"]
    /\ shown.presses["octave_up"] = 1
    /\ ~shown.last["octave_up"]
    /\ ~shown.flags["encoder"]
    /\ shown.presses["octave_down"] >= 2

====
